---- MODULE Spec2Model ----
(***************************************************************************)
(* Probemeister: the interactive shell of src/main.rs.                     *)
(*                                                                         *)
(* One action of the model is one iteration of the loop of main(): the     *)
(* prompt is shown, a line is read and parsed by unconnected_repl or       *)
(* connected_repl, and main dispatches on the value the parser returned.   *)
(* LoopBack takes the loop from the end of its body to its top.            *)
(* The USB layer, the probe and the line editor are outside the program:   *)
(* what they return in an iteration is drawn from small sets and recorded  *)
(* in io, the calls made to the probe layer are recorded in ops, and the   *)
(* text printed in the iteration is recorded in out; all of them are       *)
(* cleared by LoopBack.                                                    *)
(*                                                                         *)
(* Text is a sequence of strings: the literal pieces of the format strings *)
(* and, for everything that is parsed or formatted, single characters.     *)
(* A u32 is a record [hi, lo] of two 16 bit halves (value hi*2^16 + lo).    *)
(*                                                                         *)
(* DecoderSpec applies parse_target_id and the validation of show_info to  *)
(* register values on their own, for values no probe of Spec returns.      *)
(***************************************************************************)
EXTENDS Integers, Sequences, FiniteSets, TLC

VARIABLES
    probe,      \* main's `probe: Option<STLink>`: <<>> is None, <<p>> is Some(p)
    pc,         \* "loop" (top of the loop), "iterated" (end of its body), "exited"
                \* (after break), "done" (history saved), "panicked"
    checked,    \* the build checks integer overflow (debug) or wraps (release)
    repl,       \* the parser that ran in this iteration
    prompt,     \* the prompt of this iteration
    ret,        \* the value the parser returned in this iteration
    out,        \* the text printed in this iteration
    ops,        \* the probe-layer calls of this iteration, in order
    io,         \* what the environment returned in this iteration
    added,      \* this iteration called rl.add_history_entry
    handles,    \* number of open probe handles owned by the process
    saves,      \* number of times the history was written
    arg,        \* a register value handed to the decoder on its own
    res         \* what the decoder made of arg

vars == <<probe, pc, checked, repl, prompt, ret, out, ops, io, added, handles, saves,
          arg, res>>

----------------------------------------------------------------------------
(* Bounds of the model. *)

\* probes that can be plugged in at the same time
MaxDevices == 2
\* `connect <v>` is tried for every decimal v in 0..MaxId
MaxId == 258
\* `dump <loc> <n>` is tried for every decimal n in 0..MaxWords
MaxWords == 5

----------------------------------------------------------------------------
(* Characters, digits and numbers. *)

DecChars == <<"0", "1", "2", "3", "4", "5", "6", "7", "8", "9">>
LowerAF == <<"a", "b", "c", "d", "e", "f">>
UpperAF == <<"A", "B", "C", "D", "E", "F">>
HexChars == DecChars \o LowerAF

U32(h, l) == [hi |-> h, lo |-> l]

\* char::to_digit: the value of c as a digit of the radix, -1 when it is none
to_digit(c, radix) ==
    LET v == IF \E i \in 1..10 : DecChars[i] = c
                THEN (CHOOSE i \in 1..10 : DecChars[i] = c) - 1
             ELSE IF \E i \in 1..6 : LowerAF[i] = c \/ UpperAF[i] = c
                THEN 9 + (CHOOSE i \in 1..6 : LowerAF[i] = c \/ UpperAF[i] = c)
             ELSE -1
    IN  IF v >= 0 /\ v < radix THEN v ELSE -1

\* the sign handling of from_str_radix for an unsigned type: the digits to
\* read, or <<>> when the token is empty or is a lone sign
unsigned_digits(tok) ==
    IF tok = <<>> THEN <<>>
    ELSE IF Len(tok) = 1 /\ tok[1] \in {"+", "-"} THEN <<>>
    ELSE IF tok[1] = "+" THEN Tail(tok)
    ELSE tok

\* u8_digits with the overflow check off by one: 255 overflows
RECURSIVE u8_digits_254(_, _, _)
u8_digits_254(digits, i, acc) ==
    IF i > Len(digits) THEN <<acc>>
    ELSE LET d == to_digit(digits[i], 10)
         IN  IF d < 0 THEN <<>>
             ELSE IF acc * 10 + d > 254 THEN <<>>
             ELSE u8_digits_254(digits, i + 1, acc * 10 + d)

\* str::parse::<u8>: <<v>> for Ok(v), <<>> for Err
RECURSIVE u8_digits(_, _, _)
u8_digits(digits, i, acc) ==
    IF i > Len(digits) THEN <<acc>>
    ELSE LET d == to_digit(digits[i], 10)
         IN  IF d < 0 THEN <<>>
             ELSE IF acc * 10 + d > 255 THEN <<>>
             ELSE u8_digits(digits, i + 1, acc * 10 + d)

parse_u8(tok) ==
    IF unsigned_digits(tok) = <<>> THEN <<>>
    ELSE u8_digits(unsigned_digits(tok), 1, 0)

\* u32::from_str_radix (and str::parse::<u32> for radix 10): checked
\* multiply and add per digit; <<v>> for Ok(v), <<>> for Err
RECURSIVE u32_digits(_, _, _, _)
u32_digits(digits, i, acc, radix) ==
    IF i > Len(digits) THEN <<acc>>
    ELSE LET d  == to_digit(digits[i], radix)
             lo == acc.lo * radix + d
             hi == acc.hi * radix + (lo \div 65536)
         IN  IF d < 0 THEN <<>>
             ELSE IF hi >= 65536 THEN <<>>
             ELSE u32_digits(digits, i + 1, U32(hi, lo % 65536), radix)

u32_from_str_radix(tok, radix) ==
    IF unsigned_digits(tok) = <<>> THEN <<>>
    ELSE u32_digits(unsigned_digits(tok), 1, U32(0, 0), radix)

\* "{}" of an unsigned integer
RECURSIVE ToDec(_)
ToDec(n) ==
    IF n < 10 THEN <<DecChars[n + 1]>>
    ELSE ToDec(n \div 10) \o <<DecChars[(n % 10) + 1]>>

\* "{:x}" of an unsigned integer
RECURSIVE ToHex(_)
ToHex(n) ==
    IF n < 16 THEN <<HexChars[n + 1]>>
    ELSE ToHex(n \div 16) \o <<HexChars[(n % 16) + 1]>>

Hex4(h) ==
    << HexChars[(h \div 4096) + 1], HexChars[((h \div 256) % 16) + 1],
       HexChars[((h \div 16) % 16) + 1], HexChars[(h % 16) + 1] >>

\* "{:08x}" of a u32
Hex8(v) == Hex4(v.hi) \o Hex4(v.lo)

\* str::split_whitespace
Whitespace == {" ", "\t"}

RECURSIVE SplitFrom(_, _, _)
SplitFrom(line, i, cur) ==
    IF i > Len(line) THEN (IF cur = <<>> THEN <<>> ELSE <<cur>>)
    ELSE IF line[i] \in Whitespace
        THEN (IF cur = <<>> THEN <<>> ELSE <<cur>>) \o SplitFrom(line, i + 1, <<>>)
    ELSE SplitFrom(line, i + 1, Append(cur, line[i]))

split_whitespace(line) == SplitFrom(line, 1, <<>>)

----------------------------------------------------------------------------
(* The command keywords, as the characters the parsers compare with. *)

KwConnect == <<"c", "o", "n", "n", "e", "c", "t">>
KwHelp == <<"h", "e", "l", "p">>
KwList == <<"l", "i", "s", "t">>
KwExit == <<"e", "x", "i", "t">>
KwQuit == <<"q", "u", "i", "t">>
KwDisconnect == <<"d", "i", "s", "c", "o", "n", "n", "e", "c", "t">>
KwDump == <<"d", "u", "m", "p">>
KwInfo == <<"i", "n", "f", "o">>
KwReset == <<"r", "e", "s", "e", "t">>

Keywords == {KwConnect, KwHelp, KwList, KwExit, KwQuit, KwDisconnect, KwDump, KwInfo, KwReset}

----------------------------------------------------------------------------
(* The values of the two command enums, as records of one shape. *)

Cmd(tag, n, loc, words) == [tag |-> tag, n |-> n, loc |-> loc, words |-> words]
Plain(tag) == Cmd(tag, 0, U32(0, 0), U32(0, 0))

\* println!: the text and a newline
Println(text) == text \o <<"\n">>

----------------------------------------------------------------------------
(* The probe layer: the plugged probes and what the layer says of them. *)

\* the i-th probe that exists: what the USB enumeration reports of it
\* (link.1.usb_pid, link.1.version_name) and the name get_name gives
Device(i) ==
    [ name         |-> <<"ST-Link #">> \o ToDec(i),
      usb_pid      |-> 14152 + i,
      version_name |-> <<"V">> \o ToDec(i) ]

get_name(p) == p.dev.name

\* the prompt both parsers build
prompt_text(p) ==
    (IF p = <<>> THEN <<"(Not connected)">> ELSE get_name(p[1])) \o <<" >> ">>

\* the `list` arm of both parsers: the rows of the enumeration, numbered from 0
RECURSIVE list_rows(_, _)
list_rows(devs, i) ==
    IF i > Len(devs) THEN <<>>
    ELSE Println(<<"[">> \o ToDec(i - 1) \o <<"]: PID = ">> \o ToDec(devs[i].usb_pid)
                 \o <<", version = ">> \o devs[i].version_name)
         \o list_rows(devs, i + 1)

list_devices(plugged) ==
    IF plugged.ok
        THEN Println(<<"The following devices were found:">>) \o list_rows(plugged.devs, 1)
        ELSE <<>>

\* the `_` arm of both parsers
unknown_command(line) ==
    Println(<<"Sorry, I don't know what '">> \o line \o <<"' is, try 'help'?">>)

----------------------------------------------------------------------------
(* The parsers: the value returned and the text printed for a line. *)

\* unconnected_line with a `connect` arm that takes one argument only
unconnected_line_strict(line, plugged) ==
    LET toks == split_whitespace(line)
        rest == Tail(toks)
    IN  IF toks = <<>> THEN [ret |-> Plain("Continue"), out |-> unknown_command(line)]
        ELSE IF toks[1] = KwConnect THEN
            IF Len(rest) = 1 THEN
                IF parse_u8(rest[1]) = <<>>
                    THEN [ret |-> Plain("Continue"),
                          out |-> Println(<<"Invalid probe id '">> \o rest[1] \o <<"'">>)]
                    ELSE [ret |-> Cmd("Connect", parse_u8(rest[1])[1], U32(0, 0), U32(0, 0)),
                          out |-> <<>>]
            ELSE [ret |-> Plain("Continue"), out |-> Println(<<"Need to supply probe id">>)]
        ELSE IF toks[1] = KwHelp THEN [ret |-> Plain("Help"), out |-> <<>>]
        ELSE IF toks[1] = KwList THEN [ret |-> Plain("Continue"), out |-> list_devices(plugged)]
        ELSE IF toks[1] = KwExit \/ toks[1] = KwQuit THEN [ret |-> Plain("Exit"), out |-> <<>>]
        ELSE [ret |-> Plain("Continue"), out |-> unknown_command(line)]

\* the match on the tokens of a line in unconnected_repl
unconnected_line(line, plugged) ==
    LET toks == split_whitespace(line)
        rest == Tail(toks)
    IN  IF toks = <<>> THEN [ret |-> Plain("Continue"), out |-> unknown_command(line)]
        ELSE IF toks[1] = KwConnect THEN
            IF rest # <<>> THEN
                IF parse_u8(rest[1]) = <<>>
                    THEN [ret |-> Plain("Continue"),
                          out |-> Println(<<"Invalid probe id '">> \o rest[1] \o <<"'">>)]
                    ELSE [ret |-> Cmd("Connect", parse_u8(rest[1])[1], U32(0, 0), U32(0, 0)),
                          out |-> <<>>]
            ELSE [ret |-> Plain("Continue"), out |-> Println(<<"Need to supply probe id">>)]
        ELSE IF toks[1] = KwHelp THEN [ret |-> Plain("Help"), out |-> <<>>]
        ELSE IF toks[1] = KwList THEN [ret |-> Plain("Continue"), out |-> list_devices(plugged)]
        ELSE IF toks[1] = KwExit \/ toks[1] = KwQuit THEN [ret |-> Plain("Exit"), out |-> <<>>]
        ELSE [ret |-> Plain("Continue"), out |-> unknown_command(line)]

\* the match on the result of rl.readline in unconnected_repl
unconnected_repl(readline, plugged) ==
    IF readline.kind = "Ok" THEN unconnected_line(readline.line, plugged)
    ELSE IF readline.kind \in {"Interrupted", "Eof"} THEN [ret |-> Plain("Exit"), out |-> <<>>]
    ELSE [ret |-> Plain("Continue"), out |-> Println(<<"Error: ", readline.kind>>)]

\* the `dump` arm of connected_repl with a default of no words
dump_line_zero(rest) ==
    IF Len(rest) \in 1..2 THEN
        LET count == IF Len(rest) = 2 THEN u32_from_str_radix(rest[2], 10) ELSE <<U32(0, 0)>>
            words == IF count = <<>> THEN U32(0, 0) ELSE count[1]
            note  == IF count = <<>>
                        THEN Println(<<"Cannot parse '">> \o rest[2]
                                     \o <<"' as number of words, will use 1 instead">>)
                        ELSE <<>>
            loc   == u32_from_str_radix(rest[1], 16)
        IN  IF loc = <<>>
                THEN [ret |-> Plain("Continue"),
                      out |-> note \o Println(<<"Cannot parse '">> \o rest[1] \o <<"' as address">>)]
                ELSE [ret |-> Cmd("Dump", 0, loc[1], words), out |-> note]
    ELSE [ret |-> Plain("Continue"), out |-> Println(<<"Usage: dump <loc> [n]">>)]

\* the `dump` arm of connected_repl
dump_line(rest) ==
    IF Len(rest) \in 1..2 THEN
        LET count == IF Len(rest) = 2 THEN u32_from_str_radix(rest[2], 10) ELSE <<U32(0, 1)>>
            words == IF count = <<>> THEN U32(0, 1) ELSE count[1]
            note  == IF count = <<>>
                        THEN Println(<<"Cannot parse '">> \o rest[2]
                                     \o <<"' as number of words, will use 1 instead">>)
                        ELSE <<>>
            loc   == u32_from_str_radix(rest[1], 16)
        IN  IF loc = <<>>
                THEN [ret |-> Plain("Continue"),
                      out |-> note \o Println(<<"Cannot parse '">> \o rest[1] \o <<"' as address">>)]
                ELSE [ret |-> Cmd("Dump", 0, loc[1], words), out |-> note]
    ELSE [ret |-> Plain("Continue"), out |-> Println(<<"Usage: dump <loc> [n]">>)]

\* connected_line without its `reset` arm
connected_line_noreset(line, plugged) ==
    LET toks == split_whitespace(line)
        rest == Tail(toks)
    IN  IF toks = <<>> THEN [ret |-> Plain("Continue"), out |-> unknown_command(line)]
        ELSE IF toks[1] = KwDisconnect THEN [ret |-> Plain("Disconnect"), out |-> <<>>]
        ELSE IF toks[1] = KwDump THEN dump_line(rest)
        ELSE IF toks[1] = KwHelp THEN [ret |-> Plain("Help"), out |-> <<>>]
        ELSE IF toks[1] = KwInfo THEN [ret |-> Plain("Info"), out |-> <<>>]
        ELSE IF toks[1] = KwList THEN [ret |-> Plain("Continue"), out |-> list_devices(plugged)]
        ELSE IF toks[1] = KwExit \/ toks[1] = KwQuit THEN [ret |-> Plain("Exit"), out |-> <<>>]
        ELSE [ret |-> Plain("Continue"), out |-> unknown_command(line)]

\* the match on the tokens of a line in connected_repl
connected_line(line, plugged) ==
    LET toks == split_whitespace(line)
        rest == Tail(toks)
    IN  IF toks = <<>> THEN [ret |-> Plain("Continue"), out |-> unknown_command(line)]
        ELSE IF toks[1] = KwDisconnect THEN [ret |-> Plain("Disconnect"), out |-> <<>>]
        ELSE IF toks[1] = KwDump THEN dump_line(rest)
        ELSE IF toks[1] = KwHelp THEN [ret |-> Plain("Help"), out |-> <<>>]
        ELSE IF toks[1] = KwInfo THEN [ret |-> Plain("Info"), out |-> <<>>]
        ELSE IF toks[1] = KwList THEN [ret |-> Plain("Continue"), out |-> list_devices(plugged)]
        ELSE IF toks[1] = KwReset THEN [ret |-> Plain("Reset"), out |-> <<>>]
        ELSE IF toks[1] = KwExit \/ toks[1] = KwQuit THEN [ret |-> Plain("Exit"), out |-> <<>>]
        ELSE [ret |-> Plain("Continue"), out |-> unknown_command(line)]

\* connected_repl that exits on Eof only
connected_repl_eof(readline, plugged) ==
    IF readline.kind = "Ok" THEN connected_line(readline.line, plugged)
    ELSE IF readline.kind \in {"Eof"} THEN [ret |-> Plain("Exit"), out |-> <<>>]
    ELSE [ret |-> Plain("Continue"), out |-> Println(<<"Error: ", readline.kind>>)]

\* the match on the result of rl.readline in connected_repl
connected_repl(readline, plugged) ==
    IF readline.kind = "Ok" THEN connected_line(readline.line, plugged)
    ELSE IF readline.kind \in {"Interrupted", "Eof"} THEN [ret |-> Plain("Exit"), out |-> <<>>]
    ELSE [ret |-> Plain("Continue"), out |-> Println(<<"Error: ", readline.kind>>)]

----------------------------------------------------------------------------
(* The operations main runs on a command. *)

\* connect that takes the first enumerated probe whatever n is
connect_first(n, usb) ==
    IF ~usb.ok
        THEN [probe |-> <<>>, out |-> <<>>, ops |-> <<"new_from_connected">>]
    ELSE IF Len(usb.devs) <= n
        THEN [probe |-> <<>>,
              out   |-> Println(<<"The probe device with the given id '">> \o ToDec(n)
                                \o <<"' was not found">>),
              ops   |-> <<"new_from_connected">>]
    ELSE IF ~usb.openOk
        THEN [probe |-> <<>>, out |-> <<>>, ops |-> <<"new_from_connected", "open">>]
    ELSE [probe |-> << [dev |-> usb.devs[1], attached |-> usb.attachOk] >>,
          out   |-> <<>>,
          ops   |-> <<"new_from_connected", "open", "attach">>]

\* connect(n): STLink::new_from_connected enumerates the probes, asks the
\* closure of connect for the one to use and opens it; attach follows and
\* its result is dropped.  usb is what the USB layer does in the call.
connect(n, usb) ==
    IF ~usb.ok
        THEN [probe |-> <<>>, out |-> <<>>, ops |-> <<"new_from_connected">>]
    ELSE IF Len(usb.devs) <= n
        THEN [probe |-> <<>>,
              out   |-> Println(<<"The probe device with the given id '">> \o ToDec(n)
                                \o <<"' was not found">>),
              ops   |-> <<"new_from_connected">>]
    ELSE IF ~usb.openOk
        THEN [probe |-> <<>>, out |-> <<>>, ops |-> <<"new_from_connected", "open">>]
    ELSE [probe |-> << [dev |-> usb.devs[n + 1], attached |-> usb.attachOk] >>,
          out   |-> <<>>,
          ops   |-> <<"new_from_connected", "open", "attach">>]

\* parse_target_id without the mask of the designer field
parse_target_id_nomask(value) ==
    << (value.hi \div 4096) % 256,
       (value.hi * 16 + (value.lo \div 4096)) % 65536,
       value.lo \div 2,
       value.lo % 2 >>

\* parse_target_id with the part number not cut to 16 bits
parse_target_id_wide(value) ==
    << (value.hi \div 4096) % 256,
       value.hi * 16 + (value.lo \div 4096),
       (value.lo \div 2) % 2048,
       value.lo % 2 >>

\* revision | partno | designer | reserved, with the casts of the code
parse_target_id(value) ==
    << (value.hi \div 4096) % 256,
       (value.hi * 16 + (value.lo \div 4096)) % 65536,
       (value.lo \div 2) % 2048,
       value.lo % 2 >>

\* loc + k in u32 for a small k: the sum and whether it left the u32 range
u32_add(loc, k) ==
    LET lo == loc.lo + k
        hi == loc.hi + (lo \div 65536)
    IN  [sum |-> U32(hi % 65536, lo % 65536), overflow |-> hi >= 65536]

\* the loop of dump_memory with the space between the words of a row only
RECURSIVE dump_rows_between(_, _, _, _, _)
dump_rows_between(loc, words, data, word, overflow_checks) ==
    IF word >= words
        THEN [out |-> IF words % 4 # 0 THEN <<"\n">> ELSE <<>>, panicked |-> FALSE]
    ELSE LET addr == u32_add(loc, 4 * word)
         IN  IF word % 4 = 0 /\ addr.overflow /\ overflow_checks
                 THEN [out |-> <<>>, panicked |-> TRUE]
             ELSE LET head == IF word % 4 = 0
                                 THEN <<"0x">> \o Hex8(addr.sum) \o <<": ">>
                                 ELSE <<>>
                      cell == Hex8(data[word + 1])
                              \o (IF word % 4 = 3 \/ word + 1 = words THEN <<>> ELSE <<" ">>)
                      eol  == IF word % 4 = 3 THEN <<"\n">> ELSE <<>>
                      more == dump_rows_between(loc, words, data, word + 1, overflow_checks)
                  IN  [out |-> head \o cell \o eol \o more.out, panicked |-> more.panicked]

\* the loop of dump_memory from index `word` on, and the println after it
RECURSIVE dump_rows(_, _, _, _, _)
dump_rows(loc, words, data, word, overflow_checks) ==
    IF word >= words
        THEN [out |-> IF words % 4 # 0 THEN <<"\n">> ELSE <<>>, panicked |-> FALSE]
    ELSE LET addr == u32_add(loc, 4 * word)
         IN  IF word % 4 = 0 /\ addr.overflow /\ overflow_checks
                 THEN [out |-> <<>>, panicked |-> TRUE]
             ELSE LET head == IF word % 4 = 0
                                 THEN <<"0x">> \o Hex8(addr.sum) \o <<": ">>
                                 ELSE <<>>
                      cell == Hex8(data[word + 1]) \o <<" ">>
                      eol  == IF word % 4 = 3 THEN <<"\n">> ELSE <<>>
                      more == dump_rows(loc, words, data, word + 1, overflow_checks)
                  IN  [out |-> head \o cell \o eol \o more.out, panicked |-> more.panicked]

\* dump_memory: result <<>> is Ok(()), <<e>> is Err(e)
dump_memory(loc, words, block, overflow_checks) ==
    IF ~block.ok
        THEN [out |-> <<>>, ops |-> <<"read_block">>, panicked |-> FALSE,
              result |-> <<"Failed to read block from target">>]
    ELSE LET rows == dump_rows(loc, words, block.data, 0, overflow_checks)
         IN  [out |-> rows.out, ops |-> <<"read_block">>, panicked |-> rows.panicked,
              result |-> <<>>]

\* the name the report gives the revision field of IDCODE
protocol_name(revision) ==
    IF revision = 4 THEN "JTAG-DP"
    ELSE IF revision = 3 THEN "SW-DP"
    ELSE "Unknown Protocol"

\* the check that ends show_info, without its test of the part number
idcode_unexpected_nopart(f) ==
    \/ f[4] # 1
    \/ ~(f[1] = 3 \/ f[1] = 4)

\* the check that ends show_info
idcode_unexpected(f) ==
    \/ f[4] # 1
    \/ ~(f[1] = 3 \/ f[1] = 4)
    \/ ~(f[2] = 47616 \/ f[2] = 47618)

\* show_info that goes on to read TARGETID when the bank select failed
show_info_unselected(d) ==
    LET version_report ==
            Println(<<"Device information:">>)
            \o Println(<<"Hardware Version: ">> \o ToDec(d.version.hw))
            \o Println(<<"JTAG Version: ">> \o ToDec(d.version.jtag))
        t == parse_target_id(d.targetid.val)
        targetid_report ==
            Println(<<"Target Identification Register (TARGETID):">>)
            \o Println(<<"\tRevision = ">> \o ToDec(t[1]) \o <<", Part Number = ">>
                       \o ToDec(t[4]) \o <<", Designer = ">> \o ToDec(t[3]))
        c == parse_target_id(d.idcode.val)
        idcode_report ==
            Println(<<"\nIdentification Code Register (IDCODE):">>)
            \o Println(<<"\tProtocol = ", protocol_name(c[1]), ",\n\tPart Number = ">>
                       \o ToDec(c[2]) \o <<",\n\tJEDEC Manufacturer ID = ">> \o ToHex(c[3]))
        get_version == "get_version"
        select_bank == "write_register(0xFFFF, 0x2, 0x2)"
        read_targetid == "read_register(0xFFFF, 0x4)"
        read_idcode == "read_register(0xFFFF, 0x0)"
    IN  IF ~d.version.ok
            THEN [out |-> <<>>, ops |-> <<get_version>>, result |-> <<"Could not get version">>]
        ELSE IF ~d.targetid.ok
            THEN [out |-> version_report, ops |-> <<get_version, select_bank, read_targetid>>,
                  result |-> <<"">>]
        ELSE IF ~d.idcode.ok
            THEN [out |-> version_report \o targetid_report,
                  ops |-> <<get_version, select_bank, read_targetid, read_idcode>>,
                  result |-> <<"">>]
        ELSE [out |-> version_report \o targetid_report \o idcode_report,
              ops |-> <<get_version, select_bank, read_targetid, read_idcode>>,
              result |-> IF idcode_unexpected(c)
                            THEN <<"The IDCODE register has not-expected contents.">>
                            ELSE <<>>]

\* show_info: d is what the probe answers; result <<>> is Ok(()), <<e>> is Err(e)
show_info(d) ==
    LET version_report ==
            Println(<<"Device information:">>)
            \o Println(<<"Hardware Version: ">> \o ToDec(d.version.hw))
            \o Println(<<"JTAG Version: ">> \o ToDec(d.version.jtag))
        t == parse_target_id(d.targetid.val)
        targetid_report ==
            Println(<<"Target Identification Register (TARGETID):">>)
            \o Println(<<"\tRevision = ">> \o ToDec(t[1]) \o <<", Part Number = ">>
                       \o ToDec(t[4]) \o <<", Designer = ">> \o ToDec(t[3]))
        c == parse_target_id(d.idcode.val)
        idcode_report ==
            Println(<<"\nIdentification Code Register (IDCODE):">>)
            \o Println(<<"\tProtocol = ", protocol_name(c[1]), ",\n\tPart Number = ">>
                       \o ToDec(c[2]) \o <<",\n\tJEDEC Manufacturer ID = ">> \o ToHex(c[3]))
        get_version == "get_version"
        select_bank == "write_register(0xFFFF, 0x2, 0x2)"
        read_targetid == "read_register(0xFFFF, 0x4)"
        read_idcode == "read_register(0xFFFF, 0x0)"
    IN  IF ~d.version.ok
            THEN [out |-> <<>>, ops |-> <<get_version>>, result |-> <<"Could not get version">>]
        ELSE IF ~d.writeOk
            THEN [out |-> version_report, ops |-> <<get_version, select_bank>>,
                  result |-> <<"">>]
        ELSE IF ~d.targetid.ok
            THEN [out |-> version_report, ops |-> <<get_version, select_bank, read_targetid>>,
                  result |-> <<"">>]
        ELSE IF ~d.idcode.ok
            THEN [out |-> version_report \o targetid_report,
                  ops |-> <<get_version, select_bank, read_targetid, read_idcode>>,
                  result |-> <<"">>]
        ELSE [out |-> version_report \o targetid_report \o idcode_report,
              ops |-> <<get_version, select_bank, read_targetid, read_idcode>>,
              result |-> IF idcode_unexpected(c)
                            THEN <<"The IDCODE register has not-expected contents.">>
                            ELSE <<>>]

\* reset: the result of target_reset is dropped
reset(resetOk) == [out |-> <<>>, ops |-> <<"target_reset">>, result |-> <<>>]

\* the two help texts of main
help_disconnected ==
    Println(<<"The following commands are available:">>)
    \o Println(<<"\tconnect <n>\t- connect to a debugging probe (STLink only for now)">>)
    \o Println(<<"\texit\t\t- exit">>)
    \o Println(<<"\tquit\t\t- exit">>)

help_connected ==
    Println(<<"The following commands are available:">>)
    \o Println(<<"\tdisconnect\t- disconnect from a debugging probe">>)
    \o Println(<<"\tdump <loc> [n]\t- dump n words of data at address loc from the target">>)
    \o Println(<<"\texit\t\t- exit">>)
    \o Println(<<"\tinfo\t\t- show information about connected probe">>)
    \o Println(<<"\tquit\t\t- exit">>)
    \o Println(<<"\treset\t\t- reset the target">>)

----------------------------------------------------------------------------
(* What the environment can do in one iteration. *)

Injective(sq) == \A i, j \in 1..Len(sq) : i # j => sq[i] # sq[j]

\* the orders in which up to MaxDevices probes can be enumerated
DeviceLists ==
    { [i \in 1..Len(sq) |-> Device(sq[i])] :
        sq \in { q \in UNION { [1..k -> 1..MaxDevices] : k \in 0..MaxDevices } : Injective(q) } }

\* results of stlink::get_all_plugged_devices
PluggedResults ==
    { [ok |-> FALSE, devs |-> <<>>] } \cup { [ok |-> TRUE, devs |-> l] : l \in DeviceLists }

\* results of the USB layer inside connect(n): nothing is drawn for a step
\* that is not reached
UsbResults(n) ==
    { u \in [ok : BOOLEAN, devs : DeviceLists, openOk : BOOLEAN, attachOk : BOOLEAN] :
        /\ ~u.ok => u.devs = <<>>
        /\ (~u.ok \/ Len(u.devs) <= n) => u.openOk
        /\ (~u.ok \/ Len(u.devs) <= n \/ ~u.openOk) => u.attachOk }

\* register values the probe can return
RegValues ==
    { U32(15264, 1143),     \* 0x3BA00477
      U32(19360, 9335),     \* 0x4BA02477
      U32(15264, 1142),     \* 0x3BA00476
      U32(23456, 1143),     \* 0x5BA00477
      U32(15264, 5239),     \* 0x3BA01477
      U32(65535, 65535),    \* 0xFFFFFFFF
      U32(0, 0) }

Versions == { [ok |-> TRUE, hw |-> 2, jtag |-> 29], [ok |-> TRUE, hw |-> 3, jtag |-> 1] }

NoVersion == [ok |-> FALSE, hw |-> 0, jtag |-> 0]
NoValue == [ok |-> FALSE, val |-> U32(0, 0)]
Values == { [ok |-> TRUE, val |-> v] : v \in RegValues }

\* answers of the probe to the calls of show_info: nothing is drawn for a
\* call that is not reached
InfoResults ==
    LET R(v, w, t, c) == [version |-> v, writeOk |-> w, targetid |-> t, idcode |-> c]
    IN  { R(NoVersion, TRUE, NoValue, NoValue) }
        \cup { R(v, FALSE, NoValue, NoValue) : v \in Versions }
        \cup { R(v, TRUE, NoValue, NoValue) : v \in Versions }
        \cup { R(v, TRUE, t, NoValue) : v \in Versions, t \in Values }
        \cup { R(v, TRUE, t, c) : v \in Versions, t \in Values, c \in Values }

\* answers of read_block for n words
BlockResults(n) ==
    { [ok |-> FALSE, data |-> <<>>],
      [ok |-> TRUE, data |-> [i \in 1..n |-> U32(0, i)]],
      [ok |-> TRUE, data |-> [i \in 1..n |-> U32(57005, 48879)]] }

\* the lines the user types
RECURSIVE Join(_)
Join(toks) ==
    IF toks = <<>> THEN <<>>
    ELSE IF Len(toks) = 1 THEN toks[1]
    ELSE toks[1] \o <<" ">> \o Join(Tail(toks))

ConnectArgs ==
    { ToDec(v) : v \in 0..MaxId }
    \cup { <<"x">>, <<"-", "1">>, <<"+", "7">>, <<"+">>, <<"0", "0", "7">>,
           <<"0", "2", "5", "6">>, <<"1", "x">>, <<"0", "x", "1">>,
           <<"9", "9", "9", "9", "9", "9", "9", "9", "9", "9", "9", "9">> }

AddrArgs ==
    { <<"0">>, <<"1", "0", "0", "0">>, <<"f", "f", "f", "f", "f", "f", "f", "8">>,
      <<"F", "F", "F", "F", "F", "F", "F", "0">>, <<"0", "x", "1", "0">>,
      <<"1", "0", "0", "0", "0", "0", "0", "0", "0">>, <<"g">>, <<"+", "1", "0">> }

CountArgs ==
    { ToDec(v) : v \in 0..MaxWords }
    \cup { <<"x">>, <<"-", "1">>, <<"+", "2">>, <<"4", "2", "9", "4", "9", "6", "7", "2", "9", "6">> }

Lines ==
    { <<>>, <<" ", " ">>, <<"f", "o", "o">>, <<"E", "x", "i", "t">>,
      KwConnect \o <<"0">>,
      <<" ">> \o KwConnect \o <<" ", "\t", "1", " ">> }
    \cup Keywords
    \cup { Join(<<k, <<"x">>>>) : k \in Keywords \ {KwConnect, KwDump} }
    \cup { Join(<<KwConnect, a>>) : a \in ConnectArgs }
    \cup { Join(<<KwConnect, a, <<"x">>>>) : a \in {<<"0">>, <<"1">>, <<"x">>} }
    \cup { Join(<<KwDump, a>>) : a \in AddrArgs }
    \cup { Join(<<KwDump, a, c>>) : a \in AddrArgs, c \in CountArgs }
    \cup { Join(<<KwDump, <<"0">>, <<"1">>, <<"2">>>>) }

\* results of rl.readline
ReadlineResults ==
    { [kind |-> "Ok", line |-> l] : l \in Lines }
    \cup { [kind |-> k, line |-> <<>>] : k \in {"Interrupted", "Eof", "Io"} }

\* The enumeration both parsers make before reading is used by their `list`
\* arm only: every result is drawn for a `list` line, one for any other.
PluggedFor(readline) ==
    IF readline.kind = "Ok" /\ split_whitespace(readline.line) # <<>>
       /\ Head(split_whitespace(readline.line)) = KwList
        THEN PluggedResults
        ELSE { [ok |-> TRUE, devs |-> <<>>] }

\* io when nothing but the parser's inputs was drawn
Io(readline, plugged) ==
    [ ctxOk    |-> TRUE,
      plugged  |-> plugged,
      readline |-> readline,
      usb      |-> [ok |-> TRUE, devs |-> <<>>, openOk |-> TRUE, attachOk |-> TRUE],
      info     |-> [version |-> NoVersion, writeOk |-> TRUE, targetid |-> NoValue,
                    idcode |-> NoValue],
      block    |-> [ok |-> TRUE, data |-> <<>>],
      resetOk  |-> TRUE,
      saveOk   |-> TRUE ]

NoInput == Io([kind |-> "None", line |-> <<>>], [ok |-> TRUE, devs |-> <<>>])

----------------------------------------------------------------------------
(* main *)

NoArg == U32(0, 0)
NoRes == [fn |-> "none", fields |-> <<>>, result |-> <<>>]

\* main before its loop
Started ==
    /\ probe = <<>>
    /\ pc = "loop"
    /\ checked \in BOOLEAN
    /\ repl = "none"
    /\ prompt = <<>>
    /\ ret = Plain("None")
    /\ out = Println(<<"Probemeister at your service!">>)
    /\ ops = <<>>
    /\ io = NoInput
    /\ added = FALSE
    /\ handles = 0
    /\ saves = 0

Init ==
    /\ Started
    /\ arg = NoArg
    /\ res = NoRes

\* what every completed call of a parser leaves behind
Parsed(which, readline, plugged, r) ==
    /\ repl' = which
    /\ prompt' = prompt_text(probe)
    /\ ret' = r.ret
    /\ added' = (readline.kind = "Ok")

\* libusb::Context::new().unwrap() fails at the top of a parser
ContextPanic(which) ==
    /\ pc' = "panicked"
    /\ repl' = which
    /\ prompt' = <<>>
    /\ ret' = Plain("None")
    /\ out' = <<>>
    /\ ops' = <<>>
    /\ io' = [NoInput EXCEPT !.ctxOk = FALSE]
    /\ added' = FALSE
    /\ UNCHANGED <<probe, checked, handles, saves, arg, res>>

DisconnectedPanic ==
    /\ pc = "loop" /\ probe = <<>>
    /\ ContextPanic("unconnected_repl")

DisconnectedHelp ==
    /\ pc = "loop" /\ probe = <<>>
    /\ \E readline \in ReadlineResults : \E plugged \in PluggedFor(readline) :
        LET r == unconnected_repl(readline, plugged)
        IN  /\ r.ret.tag = "Help"
            /\ Parsed("unconnected_repl", readline, plugged, r)
            /\ out' = r.out \o help_disconnected
            /\ ops' = <<"get_all_plugged_devices">>
            /\ io' = Io(readline, plugged)
    /\ pc' = "iterated"
    /\ UNCHANGED <<probe, checked, handles, saves, arg, res>>

DisconnectedConnect ==
    /\ pc = "loop" /\ probe = <<>>
    /\ \E readline \in ReadlineResults : \E plugged \in PluggedFor(readline) :
        LET r == unconnected_repl(readline, plugged)
        IN  /\ r.ret.tag = "Connect"
            /\ \E usb \in UsbResults(r.ret.n) :
                LET c == connect(r.ret.n, usb)
                IN  /\ Parsed("unconnected_repl", readline, plugged, r)
                    /\ probe' = c.probe
                    /\ handles' = handles - Len(probe) + Len(c.probe)
                    /\ out' = r.out \o c.out
                    /\ ops' = <<"get_all_plugged_devices">> \o c.ops
                    /\ io' = [Io(readline, plugged) EXCEPT !.usb = usb]
    /\ pc' = "iterated"
    /\ UNCHANGED <<checked, saves, arg, res>>

DisconnectedExit ==
    /\ pc = "loop" /\ probe = <<>>
    /\ \E readline \in ReadlineResults : \E plugged \in PluggedFor(readline) :
        LET r == unconnected_repl(readline, plugged)
        IN  /\ r.ret.tag = "Exit"
            /\ Parsed("unconnected_repl", readline, plugged, r)
            /\ out' = r.out
            /\ ops' = <<"get_all_plugged_devices">>
            /\ io' = Io(readline, plugged)
    /\ pc' = "exited"
    /\ UNCHANGED <<probe, checked, handles, saves, arg, res>>

DisconnectedContinue ==
    /\ pc = "loop" /\ probe = <<>>
    /\ \E readline \in ReadlineResults : \E plugged \in PluggedFor(readline) :
        LET r == unconnected_repl(readline, plugged)
        IN  /\ r.ret.tag = "Continue"
            /\ Parsed("unconnected_repl", readline, plugged, r)
            /\ out' = r.out
            /\ ops' = <<"get_all_plugged_devices">>
            /\ io' = Io(readline, plugged)
    /\ pc' = "iterated"
    /\ UNCHANGED <<probe, checked, handles, saves, arg, res>>

ConnectedPanic ==
    /\ pc = "loop" /\ probe # <<>>
    /\ ContextPanic("connected_repl")

ConnectedHelp ==
    /\ pc = "loop" /\ probe # <<>>
    /\ \E readline \in ReadlineResults : \E plugged \in PluggedFor(readline) :
        LET r == connected_repl(readline, plugged)
        IN  /\ r.ret.tag = "Help"
            /\ Parsed("connected_repl", readline, plugged, r)
            /\ out' = r.out \o help_connected
            /\ ops' = <<"get_all_plugged_devices">>
            /\ io' = Io(readline, plugged)
    /\ pc' = "iterated"
    /\ UNCHANGED <<probe, checked, handles, saves, arg, res>>

ConnectedInfo ==
    /\ pc = "loop" /\ probe # <<>>
    /\ \E readline \in ReadlineResults : \E plugged \in PluggedFor(readline) :
        LET r == connected_repl(readline, plugged)
        IN  /\ r.ret.tag = "Info"
            /\ \E d \in InfoResults :
                LET i == show_info(d)
                IN  /\ Parsed("connected_repl", readline, plugged, r)
                    /\ out' = r.out \o i.out
                    /\ ops' = <<"get_all_plugged_devices">> \o i.ops
                    /\ io' = [Io(readline, plugged) EXCEPT !.info = d]
    /\ pc' = "iterated"
    /\ UNCHANGED <<probe, checked, handles, saves, arg, res>>

\* vec![0; words] and the loop of dump_memory are modelled for word counts
\* up to MaxWords
ConnectedDump ==
    /\ pc = "loop" /\ probe # <<>>
    /\ \E readline \in ReadlineResults : \E plugged \in PluggedFor(readline) :
        LET r == connected_repl(readline, plugged)
        IN  /\ r.ret.tag = "Dump"
            /\ r.ret.words.hi = 0 /\ r.ret.words.lo <= MaxWords
            /\ \E block \in BlockResults(r.ret.words.lo) :
                LET m == dump_memory(r.ret.loc, r.ret.words.lo, block, checked)
                IN  /\ Parsed("connected_repl", readline, plugged, r)
                    /\ out' = r.out \o m.out
                              \o (IF m.result # <<>> THEN Println(m.result) ELSE <<>>)
                    /\ ops' = <<"get_all_plugged_devices">> \o m.ops
                    /\ io' = [Io(readline, plugged) EXCEPT !.block = block]
                    /\ pc' = IF m.panicked THEN "panicked" ELSE "iterated"
    /\ UNCHANGED <<probe, checked, handles, saves, arg, res>>

\* Disconnect that forgets the probe without releasing its handle
ConnectedDisconnect_leak ==
    /\ pc = "loop" /\ probe # <<>>
    /\ \E readline \in ReadlineResults : \E plugged \in PluggedFor(readline) :
        LET r == connected_repl(readline, plugged)
        IN  /\ r.ret.tag = "Disconnect"
            /\ Parsed("connected_repl", readline, plugged, r)
            /\ out' = r.out
            /\ ops' = <<"get_all_plugged_devices">>
            /\ io' = Io(readline, plugged)
    /\ probe' = <<>>
    /\ handles' = handles
    /\ pc' = "iterated"
    /\ UNCHANGED <<checked, saves, arg, res>>

\* Disconnect that leaves the probe in place
ConnectedDisconnect_keep ==
    /\ pc = "loop" /\ probe # <<>>
    /\ \E readline \in ReadlineResults : \E plugged \in PluggedFor(readline) :
        LET r == connected_repl(readline, plugged)
        IN  /\ r.ret.tag = "Disconnect"
            /\ Parsed("connected_repl", readline, plugged, r)
            /\ out' = r.out
            /\ ops' = <<"get_all_plugged_devices">>
            /\ io' = Io(readline, plugged)
    /\ probe' = probe
    /\ handles' = handles
    /\ pc' = "iterated"
    /\ UNCHANGED <<checked, saves, arg, res>>

ConnectedDisconnect ==
    /\ pc = "loop" /\ probe # <<>>
    /\ \E readline \in ReadlineResults : \E plugged \in PluggedFor(readline) :
        LET r == connected_repl(readline, plugged)
        IN  /\ r.ret.tag = "Disconnect"
            /\ Parsed("connected_repl", readline, plugged, r)
            /\ out' = r.out
            /\ ops' = <<"get_all_plugged_devices">>
            /\ io' = Io(readline, plugged)
    /\ probe' = <<>>
    /\ handles' = handles - Len(probe)
    /\ pc' = "iterated"
    /\ UNCHANGED <<checked, saves, arg, res>>

\* Reset that drops the probe when target_reset fails
ConnectedReset_drop ==
    /\ pc = "loop" /\ probe # <<>>
    /\ \E readline \in ReadlineResults : \E plugged \in PluggedFor(readline) :
        LET r == connected_repl(readline, plugged)
        IN  /\ r.ret.tag = "Reset"
            /\ \E resetOk \in BOOLEAN :
                LET t == reset(resetOk)
                IN  /\ Parsed("connected_repl", readline, plugged, r)
                    /\ out' = r.out \o t.out
                    /\ ops' = <<"get_all_plugged_devices">> \o t.ops
                    /\ io' = [Io(readline, plugged) EXCEPT !.resetOk = resetOk]
                    /\ probe' = IF resetOk THEN probe ELSE <<>>
                    /\ handles' = IF resetOk THEN handles ELSE 0
    /\ pc' = "iterated"
    /\ UNCHANGED <<checked, saves, arg, res>>

ConnectedReset ==
    /\ pc = "loop" /\ probe # <<>>
    /\ \E readline \in ReadlineResults : \E plugged \in PluggedFor(readline) :
        LET r == connected_repl(readline, plugged)
        IN  /\ r.ret.tag = "Reset"
            /\ \E resetOk \in BOOLEAN :
                LET t == reset(resetOk)
                IN  /\ Parsed("connected_repl", readline, plugged, r)
                    /\ out' = r.out \o t.out
                    /\ ops' = <<"get_all_plugged_devices">> \o t.ops
                    /\ io' = [Io(readline, plugged) EXCEPT !.resetOk = resetOk]
    /\ pc' = "iterated"
    /\ UNCHANGED <<probe, checked, handles, saves, arg, res>>

ConnectedExit ==
    /\ pc = "loop" /\ probe # <<>>
    /\ \E readline \in ReadlineResults : \E plugged \in PluggedFor(readline) :
        LET r == connected_repl(readline, plugged)
        IN  /\ r.ret.tag = "Exit"
            /\ Parsed("connected_repl", readline, plugged, r)
            /\ out' = r.out
            /\ ops' = <<"get_all_plugged_devices">>
            /\ io' = Io(readline, plugged)
    /\ pc' = "exited"
    /\ UNCHANGED <<probe, checked, handles, saves, arg, res>>

ConnectedContinue ==
    /\ pc = "loop" /\ probe # <<>>
    /\ \E readline \in ReadlineResults : \E plugged \in PluggedFor(readline) :
        LET r == connected_repl(readline, plugged)
        IN  /\ r.ret.tag = "Continue"
            /\ Parsed("connected_repl", readline, plugged, r)
            /\ out' = r.out
            /\ ops' = <<"get_all_plugged_devices">>
            /\ io' = Io(readline, plugged)
    /\ pc' = "iterated"
    /\ UNCHANGED <<probe, checked, handles, saves, arg, res>>

\* rl.save_history("history.txt").unwrap() after the loop
SaveHistory ==
    /\ pc = "exited"
    /\ \E saveOk \in BOOLEAN :
        /\ io' = [io EXCEPT !.saveOk = saveOk]
        /\ pc' = IF saveOk THEN "done" ELSE "panicked"
        /\ saves' = IF saveOk THEN saves + 1 ELSE saves
    /\ UNCHANGED <<probe, checked, repl, prompt, ret, out, ops, added, handles, arg, res>>

\* the end of the body of the loop: the locals of the iteration are gone
LoopBack ==
    /\ pc = "iterated"
    /\ pc' = "loop"
    /\ repl' = "none"
    /\ prompt' = <<>>
    /\ ret' = Plain("None")
    /\ out' = <<>>
    /\ ops' = <<>>
    /\ io' = NoInput
    /\ added' = FALSE
    /\ UNCHANGED <<probe, checked, handles, saves, arg, res>>

Next ==
    \/ DisconnectedPanic
    \/ DisconnectedHelp
    \/ DisconnectedConnect
    \/ DisconnectedExit
    \/ DisconnectedContinue
    \/ ConnectedPanic
    \/ ConnectedHelp
    \/ ConnectedInfo
    \/ ConnectedDump
    \/ ConnectedDisconnect
    \/ ConnectedReset
    \/ ConnectedExit
    \/ ConnectedContinue
    \/ LoopBack
    \/ SaveHistory

Spec == Init /\ [][Next]_vars

----------------------------------------------------------------------------
(* The register decoder on its own. *)

\* revision | partno | designer | reserved packed into a u32, by the layout
\* the comment of parse_target_id gives
Pack(f) == U32(f[1] * 4096 + (f[2] \div 16), (f[2] % 16) * 4096 + f[3] * 2 + f[4])

\* field values the decoder is tried on: every revision, part numbers and
\* designers at and around the values show_info tests and at both ends of
\* their ranges
PartNumbers == {0, 1, 15, 16, 47615, 47616, 47617, 47618, 47619, 32768, 65535}
Designers == {0, 1, 571, 1024, 2047}
FieldTuples == { <<r, p, d, b>> : r \in 0..15, p \in PartNumbers, d \in Designers, b \in 0..1 }

RegisterInputs == { Pack(f) : f \in FieldTuples } \cup RegValues

DecoderInit ==
    /\ Started
    /\ arg \in RegisterInputs
    /\ res = NoRes

\* parse_target_id(arg)
Decode ==
    /\ res = NoRes
    /\ res' = [fn |-> "parse_target_id", fields |-> parse_target_id(arg), result |-> <<>>]
    /\ UNCHANGED <<probe, pc, checked, repl, prompt, ret, out, ops, io, added, handles, saves, arg>>

\* show_info on a probe that answers every call and returns arg as IDCODE
Validate ==
    /\ res = NoRes
    /\ \E v \in Versions :
        res' = [fn     |-> "show_info",
                fields |-> <<>>,
                result |-> show_info([version  |-> v,
                                      writeOk  |-> TRUE,
                                      targetid |-> [ok |-> TRUE, val |-> arg],
                                      idcode   |-> [ok |-> TRUE, val |-> arg]]).result]
    /\ UNCHANGED <<probe, pc, checked, repl, prompt, ret, out, ops, io, added, handles, saves, arg>>

DecoderNext ==
    \/ Decode
    \/ Validate

DecoderSpec == DecoderInit /\ [][DecoderNext]_vars

----------------------------------------------------------------------------
(* Properties of the session. *)

Connected == probe # <<>>
Disconnected == probe = <<>>

\* an iteration of the loop in which a parser read its input
Iterates == pc = "loop" /\ pc' # "loop" /\ io'.ctxOk

\* the tokens of the line of this iteration (none when no line was read)
Tokens(readline) == IF readline.kind = "Ok" THEN split_whitespace(readline.line) ELSE <<>>
FirstToken(readline) == IF Tokens(readline) = <<>> THEN <<>> ELSE Head(Tokens(readline))

Called(op) == \E i \in 1..Len(ops) : ops[i] = op
Printed(piece) == \E i \in 1..Len(out) : out[i] = piece

\* the USB layer found the probe at index n and opened it
Opened(usb, n) == usb.ok /\ n < Len(usb.devs) /\ usb.openOk

\* C1: from Disconnected, Connect{n} against an enumeration of k probes
\* leaves the session Disconnected when n >= k and makes it Connected with
\* the probe at index n when n < k and the open succeeds; the prompt is
\* '<name of the held probe> >> ' while Connected and '(Not connected) >> '
\* while Disconnected.
C1_ConnectAndPrompt ==
    [][ Iterates =>
          /\ (Disconnected /\ ret'.tag = "Connect") =>
                /\ ret'.n >= Len(io'.usb.devs) => probe' = <<>>
                /\ Opened(io'.usb, ret'.n) =>
                      /\ probe' # <<>>
                      /\ probe'[1].dev = io'.usb.devs[ret'.n + 1]
          /\ Connected => prompt' = probe[1].dev.name \o <<" >> ">>
          /\ Disconnected => prompt' = <<"(Not connected)", " >> ">>
      ]_vars

C1_Witness ==
    /\ ret.tag = "Connect" /\ ret.n = 1
    /\ Len(io.usb.devs) = 2
    /\ probe # <<>>
    /\ probe[1].dev = io.usb.devs[2]

\* C2: Connect{id} makes the session Connected if and only if the open and
\* the attach both succeed; when the attach fails the session stays
\* Disconnected and the failure is reported.
C2_ConnectedIffOpenAndAttach ==
    (repl = "unconnected_repl" /\ ret.tag = "Connect") =>
        /\ Connected <=> (Opened(io.usb, ret.n) /\ io.usb.attachOk)
        /\ (Opened(io.usb, ret.n) /\ ~io.usb.attachOk) => out # <<>>

\* C3: at most one probe handle is open; connect runs only from the
\* Disconnected parser; `connect` typed while Connected gives Continue and
\* opens nothing; `disconnect`, `dump`, `info` and `reset` typed while
\* Disconnected give Continue and no probe operation.
C3_OneHandle ==
    /\ handles <= 1
    /\ handles = Len(probe)
    /\ Called("new_from_connected") => repl = "unconnected_repl"
    /\ (repl = "connected_repl" /\ FirstToken(io.readline) = KwConnect) =>
          /\ ret.tag = "Continue"
          /\ ops = <<"get_all_plugged_devices">>
    /\ (repl = "unconnected_repl"
        /\ FirstToken(io.readline) \in {KwDisconnect, KwDump, KwInfo, KwReset}) =>
          /\ ret.tag = "Continue"
          /\ ops = <<"get_all_plugged_devices">>
          /\ probe = <<>>

C3_Witness ==
    /\ repl = "connected_repl"
    /\ FirstToken(io.readline) = KwConnect
    /\ Len(Tokens(io.readline)) = 2
    /\ ret.tag = "Continue"
    /\ handles = 1

\* C4: from Connected, Disconnect always makes the session Disconnected and
\* releases the handle, whatever the probe layer does, and a connect is
\* accepted again at the next prompt.
C4_Disconnect ==
    /\ [][ (Iterates /\ Connected /\ ret'.tag = "Disconnect") =>
              (probe' = <<>> /\ handles' = 0 /\ pc' = "iterated") ]_vars
    /\ [][ (pc = "iterated" /\ Disconnected) =>
              (pc' = "loop" /\ probe' = <<>>) ]_vars
    /\ []((pc = "loop" /\ Disconnected) => ENABLED DisconnectedConnect)

C4_Witness ==
    /\ repl = "connected_repl"
    /\ ret.tag = "Disconnect"
    /\ pc = "iterated"
    /\ probe = <<>>
    /\ handles = 0

\* C5: an iteration that runs to its end changes the session only on a
\* successful Connect and on Disconnect: Reset, Dump, Info, Help and
\* Continue keep the same probe whether the probe operation succeeds or
\* fails, and Help, Continue and a failed Connect keep it Disconnected.
C5_Frame ==
    [][ (Iterates /\ pc' = "iterated") =>
          /\ (Connected /\ ret'.tag \in {"Reset", "Dump", "Info", "Help", "Continue"}) =>
                (probe' = probe /\ handles' = handles)
          /\ (Disconnected /\ ret'.tag \in {"Help", "Continue"}) =>
                (probe' = <<>> /\ handles' = handles)
          /\ (Disconnected /\ ret'.tag = "Connect" /\ ~Opened(io'.usb, ret'.n)) =>
                (probe' = <<>> /\ handles' = handles)
          /\ probe' # probe => ret'.tag \in {"Connect", "Disconnect"}
      ]_vars

C5_Witness ==
    /\ repl = "connected_repl"
    /\ ret.tag = "Reset"
    /\ ~io.resetOk
    /\ pc = "iterated"
    /\ probe # <<>>

\* the iteration ended by printing one of the error texts of the code
ErrorTexts ==
    { "Failed to read block from target", "Could not get version",
      "The IDCODE register has not-expected contents." }

ErrorReported ==
    /\ Len(out) >= 2
    /\ out[Len(out)] = "\n"
    /\ out[Len(out) - 1] \in ErrorTexts

\* a call of the Connected handlers to the probe failed
ProbeFailure ==
    \/ Called("target_reset") /\ ~io.resetOk
    \/ Called("read_block") /\ ~io.block.ok
    \/ Called("get_version") /\ ~io.info.version.ok
    \/ Called("write_register(0xFFFF, 0x2, 0x2)") /\ ~io.info.writeOk
    \/ Called("read_register(0xFFFF, 0x4)") /\ ~io.info.targetid.ok
    \/ Called("read_register(0xFFFF, 0x0)") /\ ~io.info.idcode.ok

\* C6: every failure of a probe call in a Connected command (reset, the
\* block read of dump, get_version, write_register and read_register of
\* info) prints a non-empty error message.
C6_FailuresReported ==
    (repl = "connected_repl" /\ ProbeFailure) => ErrorReported

\* C7: when info reads an IDCODE that fails the validation, the message
\* 'The IDCODE register has not-expected contents.' is printed and the
\* session stays Connected.
C7_IdcodeMismatchReported ==
    ( /\ repl = "connected_repl"
      /\ Called("read_register(0xFFFF, 0x0)")
      /\ io.info.idcode.ok
      /\ idcode_unexpected(parse_target_id(io.info.idcode.val)) ) =>
        /\ Printed("The IDCODE register has not-expected contents.")
        /\ Connected
        /\ pc = "iterated"

\* C8: the loop ends exactly when a parser returns Exit; the parsers return
\* Exit for `exit`, `quit`, an interrupt and end of input, in both states,
\* and for nothing else; another error of the line reader gives Continue and
\* the loop goes on in the same state; the history is written once, after
\* the loop has ended, and never before.
C8_ExitAndSave ==
    /\ [][ (pc = "loop" /\ pc' = "exited")
             <=> (pc = "loop" /\ pc' # "loop" /\ ret'.tag = "Exit") ]_vars
    /\ []( (repl # "none" /\ io.ctxOk) =>
             /\ ret.tag = "Exit" <=>
                  \/ io.readline.kind \in {"Interrupted", "Eof"}
                  \/ FirstToken(io.readline) \in {KwExit, KwQuit}
             /\ io.readline.kind = "Io" => ret.tag = "Continue" )
    /\ [][ (Iterates /\ io'.readline.kind = "Io") =>
             (pc' = "iterated" /\ probe' = probe) ]_vars
    /\ [](saves = IF pc = "done" THEN 1 ELSE 0)
    /\ [][ saves' # saves => (pc = "exited" /\ pc' = "done") ]_vars

C8_Witness ==
    /\ pc = "done"
    /\ saves = 1
    /\ repl = "connected_repl"
    /\ io.readline.kind = "Interrupted"
    /\ ret.tag = "Exit"

\* what a token denotes, read as a numeral: an optional sign and digits
Digits == { DecChars[i] : i \in 1..10 }
Unsigned(tok) == IF tok # <<>> /\ tok[1] \in {"+", "-"} THEN Tail(tok) ELSE tok
Numeric(tok) == Unsigned(tok) # <<>> /\ \A i \in 1..Len(Unsigned(tok)) : Unsigned(tok)[i] \in Digits

RECURSIVE Significant(_)
Significant(digits) ==
    IF digits # <<>> /\ digits[1] = "0" THEN Significant(Tail(digits)) ELSE digits

\* a numeral without a minus sign that denotes more than 255
Above255(tok) ==
    /\ Numeric(tok)
    /\ tok[1] # "-"
    /\ \/ Len(Significant(Unsigned(tok))) > 3
       \/ \E v \in 256..999 : Significant(Unsigned(tok)) = ToDec(v)

\* the line was turned down: Continue, a diagnostic, nothing opened
Rejected ==
    /\ ret.tag = "Continue"
    /\ out # <<>>
    /\ ops = <<"get_all_plugged_devices">>
    /\ probe = <<>>
    /\ pc = "iterated"

\* C9: while Disconnected, `connect <v>` gives Connect{n = v} for every v in
\* 0..255; a first argument that is not numeric or denotes more than 255,
\* and `connect` without an argument, give Continue with a diagnostic, no
\* probe is opened and the session stays Disconnected.
C9_ConnectArgument ==
    (repl = "unconnected_repl" /\ FirstToken(io.readline) = KwConnect) =>
        LET toks == Tokens(io.readline)
        IN  /\ Len(toks) = 1 => Rejected
            /\ (Len(toks) = 2 /\ \E v \in 0..255 : toks[2] = ToDec(v)) =>
                  /\ ret.tag = "Connect"
                  /\ ToDec(ret.n) = toks[2]
            /\ (Len(toks) >= 2 /\ (~Numeric(toks[2]) \/ Above255(toks[2]))) => Rejected

C9_Witness ==
    /\ repl = "unconnected_repl"
    /\ Tokens(io.readline) = <<KwConnect, <<"2", "5", "5">>>>
    /\ ret.tag = "Connect"
    /\ ret.n = 255

\* the answer of the parsers to a first token they do not know
UnknownCommand ==
    /\ ret.tag = "Continue"
    /\ out = <<"Sorry, I don't know what '">> \o io.readline.line
             \o <<"' is, try 'help'?", "\n">>
    /\ ops = <<"get_all_plugged_devices">>

\* the value connected_repl returns for a keyword it knows
KnownConnected ==
    LET first == FirstToken(io.readline)
    IN  /\ first = KwDisconnect => ret.tag = "Disconnect"
        /\ first = KwDump => ret.tag \in {"Dump", "Continue"} /\ ~UnknownCommand
        /\ first = KwInfo => ret.tag = "Info"
        /\ first = KwReset => ret.tag = "Reset"
        /\ first = KwHelp => ret.tag = "Help"
        /\ first \in {KwExit, KwQuit} => ret.tag = "Exit"

ConnectedKeywords == {KwDisconnect, KwDump, KwInfo, KwReset, KwHelp, KwExit, KwQuit}

\* C10 as stated: while Connected the keywords are exactly `disconnect`,
\* `dump`, `info`, `reset`, `help`, `exit` and `quit`; every other first
\* token, `list` and `connect` included, gets the unknown-command diagnostic
\* and Continue, with no enumeration output and no probe operation.
C10_SevenKeywords ==
    (repl = "connected_repl" /\ FirstToken(io.readline) # <<>>) =>
        /\ KnownConnected
        /\ FirstToken(io.readline) \notin ConnectedKeywords => UnknownCommand

\* C10, amended: while Connected the keywords are those seven and `list`;
\* `list` prints the enumeration of the plugged probes (nothing when the
\* enumeration fails) and gives Continue; every other first token,
\* `connect` included, gets the unknown-command diagnostic and Continue with
\* no probe operation.
C10_SevenKeywordsAndList ==
    (repl = "connected_repl" /\ FirstToken(io.readline) # <<>>) =>
        /\ KnownConnected
        /\ FirstToken(io.readline) = KwList =>
              /\ ret.tag = "Continue"
              /\ ops = <<"get_all_plugged_devices">>
              /\ io.plugged.ok =>
                    /\ out[1] = "The following devices were found:"
                    /\ Len(SelectSeq(out, LAMBDA x : x = "\n")) = 1 + Len(io.plugged.devs)
              /\ ~io.plugged.ok => out = <<>>
        /\ FirstToken(io.readline) \notin (ConnectedKeywords \cup {KwList}) => UnknownCommand

C10_Witness ==
    /\ repl = "connected_repl"
    /\ FirstToken(io.readline) = KwList
    /\ io.plugged.ok
    /\ Len(io.plugged.devs) = 2
    /\ out[1] = "The following devices were found:"
    /\ probe # <<>>

----------------------------------------------------------------------------
(* Properties of the register decoder. *)

\* the bit fields of a u32 value
Bits31to28(v) == v.hi \div 4096
Bits27to12(v) == (v.hi % 4096) * 16 + (v.lo \div 4096)
Bits11to1(v) == (v.lo % 4096) \div 2
Bit0(v) == v.lo % 2

\* C11: for every value v the decoder returns revision = bits 31..28 (0..15),
\* part_number = bits 27..12 (0..65535, no revision bit in it), designer =
\* bits 11..1 (0..2047) and reserved = bit 0; 0x3BA00477 gives revision 3,
\* part_number 0xBA00 and reserved 1.
C11_Decode ==
    res.fn = "parse_target_id" =>
        /\ res.fields = <<Bits31to28(arg), Bits27to12(arg), Bits11to1(arg), Bit0(arg)>>
        /\ res.fields[1] \in 0..15
        /\ res.fields[2] \in 0..65535
        /\ res.fields[3] \in 0..2047
        /\ res.fields[4] \in 0..1
        /\ arg = U32(15264, 1143) =>
              (res.fields[1] = 3 /\ res.fields[2] = 47616 /\ res.fields[4] = 1)

C11_Witness ==
    /\ res.fn = "parse_target_id"
    /\ arg = U32(65535, 61440)
    /\ res.fields = <<15, 65535, 0, 0>>

\* C12: show_info on a probe that answers every call succeeds exactly when
\* the IDCODE value has reserved bit 1, revision 3 or 4 and part number 0xBA00
\* or 0xBA02; every other value gives the IDCODE error.
C12_Validation ==
    res.fn = "show_info" =>
        /\ res.result = <<>> <=>
              ( /\ Bit0(arg) = 1
                /\ Bits31to28(arg) \in {3, 4}
                /\ Bits27to12(arg) \in {47616, 47618} )
        /\ res.result # <<>> =>
              res.result = <<"The IDCODE register has not-expected contents.">>

C12_Witness ==
    /\ res.fn = "show_info"
    /\ arg = Pack(<<4, 47618, 571, 1>>)
    /\ res.result = <<>>

----------------------------------------------------------------------------
(* Properties of the memory dump. *)

\* a dump command whose block read succeeded
DumpDone ==
    /\ repl = "connected_repl"
    /\ ret.tag = "Dump"
    /\ Called("read_block")
    /\ io.block.ok

\* what was printed after the notice of the parser, if it printed one
RECURSIVE AfterLine(_)
AfterLine(o) ==
    IF o = <<>> THEN <<>>
    ELSE IF Head(o) = "\n" THEN Tail(o)
    ELSE AfterLine(Tail(o))

DumpText == IF out # <<>> /\ Head(out) = "Cannot parse '" THEN AfterLine(out) ELSE out

\* the lines of a text: the pieces before each newline
RECURSIVE LinesFrom(_, _)
LinesFrom(o, cur) ==
    IF o = <<>> THEN (IF cur = <<>> THEN <<>> ELSE <<cur>>)
    ELSE IF Head(o) = "\n" THEN <<cur>> \o LinesFrom(Tail(o), <<>>)
    ELSE LinesFrom(Tail(o), Append(cur, Head(o)))

Rows(o) == LinesFrom(o, <<>>)

EndsWithNewline(o) == o # <<>> /\ o[Len(o)] = "\n"

\* base + k as a number, and whether it still is a 32 bit address
Beyond32(base, k) == base.hi + ((base.lo + k) \div 65536) >= 65536
At(base, k) == U32(base.hi + ((base.lo + k) \div 65536), (base.lo + k) % 65536)

RowHeader(base, r) == <<"0x">> \o Hex8(At(base, 16 * r)) \o <<": ">>

RECURSIVE WithoutSpaces(_)
WithoutSpaces(o) ==
    IF o = <<>> THEN <<>>
    ELSE IF Head(o) = " " THEN WithoutSpaces(Tail(o))
    ELSE <<Head(o)>> \o WithoutSpaces(Tail(o))

\* the digits of the words at positions from .. to of data, in order
RECURSIVE WordDigits(_, _, _)
WordDigits(data, from, to) ==
    IF from > to THEN <<>>
    ELSE Hex8(data[from + 1]) \o WordDigits(data, from + 1, to)

Min(a, b) == IF a < b THEN a ELSE b

\* row r of the dump of data at base is the text `row`
RowShows(row, base, data, r) ==
    /\ ~Beyond32(base, 16 * r)
    /\ Len(row) > 9
    /\ SubSeq(row, 1, 10) = RowHeader(base, r)
    /\ WithoutSpaces(SubSeq(row, 11, Len(row)))
          = WordDigits(data, 4 * r, Min(4 * r + 3, Len(data) - 1))

RowsAsClaimed ==
    LET N == Len(io.block.data)
        rows == Rows(DumpText)
    IN  /\ pc = "iterated"
        /\ N > 0 => EndsWithNewline(DumpText)
        /\ Len(rows) = (N + 3) \div 4
        /\ \A r \in 1..Len(rows) : RowShows(rows[r], ret.loc, io.block.data, r - 1)

\* the last word of the dump has a 32 bit address
DumpInRange == ~Beyond32(ret.loc, 4 * (Len(io.block.data) - 1))

\* C13: a dump of N fetched words prints ceil(N/4) rows; row r starts with
\* '0x', the 8 hex digits of base + 16*r and ': ', holds the words at
\* positions 4r .. min(4r+3, N-1) in order, and ends with one newline.
C13_DumpRows == DumpDone => RowsAsClaimed

\* what holds of the rows: the same, for dumps that stay below 2^32
C13_DumpRowsInRange == (DumpDone /\ DumpInRange) => RowsAsClaimed

C13_InRangeWitness ==
    /\ DumpDone /\ DumpInRange
    /\ Len(io.block.data) = 5
    /\ pc = "iterated"

\* C20: in every dump whose block read succeeded, the address loc + 4*i the
\* code computes for a row stays below 2^32, so the dump neither aborts nor
\* prints a wrapped address.
C20_AddressesInRange ==
    DumpDone =>
        /\ pc # "panicked"
        /\ \A i \in 0..(Len(io.block.data) - 1) :
              i % 4 = 0 => ~Beyond32(ret.loc, 4 * i)

\* the two outcomes of `dump fffffff8 5`: the abort after the first row, and
\* the second row printed under address 0x00000008
C20_Aborted ==
    /\ DumpDone /\ ret.loc = U32(65535, 65528) /\ Len(io.block.data) = 5
    /\ checked /\ pc = "panicked"
    /\ Len(Rows(DumpText)) = 1

C20_Wrapped ==
    /\ DumpDone /\ ret.loc = U32(65535, 65528) /\ Len(io.block.data) = 5
    /\ ~checked /\ pc = "iterated"
    /\ SubSeq(Rows(DumpText)[2], 1, 10) = <<"0x">> \o Hex8(U32(0, 8)) \o <<": ">>

\* a token of hex digits that denotes a 32 bit address
HexDigits == Digits \cup {"a", "b", "c", "d", "e", "f", "A", "B", "C", "D", "E", "F"}
ValidHex(tok) ==
    /\ tok # <<>>
    /\ \A i \in 1..Len(tok) : tok[i] \in HexDigits
    /\ Len(Significant(tok)) <= 8

\* a numeral without a minus sign that denotes more than 4294967295
DigitOf(c) == CHOOSE i \in 0..9 : DecChars[i + 1] = c

RECURSIVE Greater(_, _)
Greater(a, b) ==
    /\ a # <<>>
    /\ \/ DigitOf(a[1]) > DigitOf(b[1])
       \/ a[1] = b[1] /\ Greater(Tail(a), Tail(b))

LargestU32 == <<"4", "2", "9", "4", "9", "6", "7", "2", "9", "5">>

AboveU32(tok) ==
    /\ Numeric(tok)
    /\ tok[1] # "-"
    /\ \/ Len(Significant(Unsigned(tok))) > 10
       \/ /\ Len(Significant(Unsigned(tok))) = 10
          /\ Greater(Significant(Unsigned(tok)), LargestU32)

\* a word count that does not parse as a decimal u32
NoCount(tok) == ~Numeric(tok) \/ tok[1] = "-" \/ AboveU32(tok)

\* `dump <addr>` with a valid address and no count, or a count that does not parse
DumpDefault ==
    /\ repl = "connected_repl"
    /\ Len(Tokens(io.readline)) \in 2..3
    /\ Tokens(io.readline)[1] = KwDump
    /\ ValidHex(Tokens(io.readline)[2])
    /\ Len(Tokens(io.readline)) = 3 => NoCount(Tokens(io.readline)[3])

\* Dump{words = 1}, and the probe asked once for its block
OneWordAsked ==
    /\ ret.tag = "Dump"
    /\ ret.words = U32(0, 1)
    /\ Len(SelectSeq(ops, LAMBDA op : op = "read_block")) = 1
    /\ io.block.ok => Len(io.block.data) = 1

\* the notice is printed for a count that does not parse, and only then
FallbackNotice ==
    IF Len(Tokens(io.readline)) = 3
        THEN /\ Len(out) > 3
             /\ SubSeq(out, 1, 3 + Len(Tokens(io.readline)[3]))
                   = <<"Cannot parse '">> \o Tokens(io.readline)[3]
                     \o <<"' as number of words, will use 1 instead", "\n">>
        ELSE DumpText = out

\* one word was fetched and its row is all the dump printed
OneRow ==
    /\ io.block.ok
    /\ Len(Rows(DumpText)) = 1
    /\ RowShows(Rows(DumpText)[1], ret.loc, io.block.data, 0)
    /\ EndsWithNewline(DumpText)

\* C14 as stated: `dump <addr>` with no count, or with a count that does not
\* parse, gives Dump{words = 1}, one word is fetched and one row is printed
\* (after the notice when the count did not parse).
C14_OneWordOneRow ==
    DumpDefault => (OneWordAsked /\ FallbackNotice /\ OneRow)

\* C14: `dump <addr>` with no count, or with a count that does not parse,
\* gives Dump{words = 1} and asks the probe for one word (after the notice
\* when the count did not parse); when the block read succeeds one row is
\* printed, and when it fails the read error is printed and no row.
C14_OneWordAsked ==
    DumpDefault =>
        /\ OneWordAsked
        /\ FallbackNotice
        /\ pc = "iterated"
        /\ io.block.ok => OneRow
        /\ ~io.block.ok => DumpText = <<"Failed to read block from target", "\n">>

C14_Witness ==
    /\ DumpDefault
    /\ Tokens(io.readline) = <<KwDump, <<"1", "0", "0", "0">>, <<"x">>>>
    /\ OneWordAsked
    /\ OneRow

----------------------------------------------------------------------------
(* Properties of the info report. *)

InfoOrder ==
    << "get_version",
       "write_register(0xFFFF, 0x2, 0x2)",
       "read_register(0xFFFF, 0x4)",
       "read_register(0xFFFF, 0x0)" >>

\* the calls of this iteration on the held probe
ProbeCalls == SelectSeq(ops, LAMBDA op : op # "get_all_plugged_devices")

\* the first step of the info operation the probe fails, 5 when it fails none
Answered == <<io.info.version.ok, io.info.writeOk, io.info.targetid.ok, io.info.idcode.ok>>
FirstFailure ==
    IF \E k \in 1..4 : ~Answered[k]
        THEN CHOOSE k \in 1..4 : ~Answered[k] /\ \A j \in 1..(k - 1) : Answered[j]
        ELSE 5

\* the position in out of the first occurrence of a piece, 0 when it is not printed
PositionOf(piece) ==
    IF Printed(piece) THEN CHOOSE i \in 1..Len(out) : out[i] = piece /\ \A j \in 1..(i - 1) : out[j] # piece
    ELSE 0

\* C15: the info operation calls get_version, write_register (bank select),
\* read_register for TARGETID and read_register for IDCODE in this order; it
\* stops at the first call that fails: no later call is made, nothing of a
\* later step is printed, what the completed steps printed stays, and a
\* get_version failure prints nothing.
C15_InfoOrder ==
    (repl = "connected_repl" /\ ret.tag = "Info") =>
        /\ ProbeCalls = SubSeq(InfoOrder, 1, Min(FirstFailure, 4))
        /\ Printed("Device information:") <=> FirstFailure > 1
        /\ Printed("Target Identification Register (TARGETID):") <=> FirstFailure > 3
        /\ Printed("\nIdentification Code Register (IDCODE):") <=> FirstFailure > 4
        /\ FirstFailure = 1 => out = <<>>
        /\ FirstFailure > 4 =>
              /\ 0 < PositionOf("Device information:")
              /\ PositionOf("Device information:")
                    < PositionOf("Target Identification Register (TARGETID):")
              /\ PositionOf("Target Identification Register (TARGETID):")
                    < PositionOf("\nIdentification Code Register (IDCODE):")

\* the TARGETID read fails: three calls, and the version report alone
C15_Witness ==
    /\ repl = "connected_repl" /\ ret.tag = "Info"
    /\ FirstFailure = 3
    /\ ProbeCalls = SubSeq(InfoOrder, 1, 3)
    /\ Printed("Device information:")
    /\ ~Printed("Target Identification Register (TARGETID):")

----------------------------------------------------------------------------
(* The decoder and the layout it reads. *)

\* C16: packing the four decoded fields of a value v as (revision << 28) |
\* (part_number << 12) | (designer << 1) | reserved gives v back, and decoding
\* the word packed from a tuple with revision < 16, part_number < 65536,
\* designer < 2048 and reserved < 2 gives that tuple back.
C16_RoundTrip ==
    res.fn = "parse_target_id" =>
        /\ Pack(res.fields) = arg
        /\ \A f \in FieldTuples : arg = Pack(f) => res.fields = f

C16_Witness ==
    /\ res.fn = "parse_target_id"
    /\ arg = Pack(<<4, 47618, 2047, 0>>)
    /\ res.fields = <<4, 47618, 2047, 0>>
    /\ arg = U32(19360, 12286)

----------------------------------------------------------------------------
(* The text of a dump row. *)

LowerHexDigits == Digits \cup {"a", "b", "c", "d", "e", "f"}

\* words of 8 lowercase hex digits, each followed by one space
RECURSIVE SpacedWords(_)
SpacedWords(o) ==
    \/ o = <<>>
    \/ /\ Len(o) >= 9
       /\ \A i \in 1..8 : o[i] \in LowerHexDigits
       /\ o[9] = " "
       /\ SpacedWords(SubSeq(o, 10, Len(o)))

\* the part of a row after its header
RowWords(row) == SubSeq(row, 11, Len(row))

\* words separated by single spaces, with nothing after the last
RowSeparated(row) ==
    /\ Len(row) >= 18
    /\ row[Len(row)] # " "
    /\ SpacedWords(RowWords(row) \o <<" ">>)

\* every word followed by a single space, the last one too
RowSpaced(row) ==
    /\ Len(row) >= 19
    /\ SpacedWords(RowWords(row))

\* the dump of the words 1, 2, 3, 4, 5 at base 0x1000
ExampleDump ==
    /\ DumpDone
    /\ ret.loc = U32(0, 4096)
    /\ io.block.data = <<U32(0, 1), U32(0, 2), U32(0, 3), U32(0, 4), U32(0, 5)>>

ExampleWord(d) == <<"0", "0", "0", "0", "0", "0", "0", d>>
ExampleHeader1 == <<"0x", "0", "0", "0", "0", "1", "0", "0", "0", ": ">>
ExampleHeader2 == <<"0x", "0", "0", "0", "0", "1", "0", "1", "0", ": ">>

\* C17 as stated: the words of a row are separated by single spaces and the
\* newline follows the last word directly; base 0x1000 and words 1..5 print
\* '0x00001000: 00000001 00000002 00000003 00000004', newline,
\* '0x00001010: 00000005', newline.
C17_NoTrailingSpace ==
    DumpDone =>
        /\ \A r \in 1..Len(Rows(DumpText)) : RowSeparated(Rows(DumpText)[r])
        /\ ExampleDump =>
              DumpText = ExampleHeader1
                         \o ExampleWord("1") \o <<" ">> \o ExampleWord("2") \o <<" ">>
                         \o ExampleWord("3") \o <<" ">> \o ExampleWord("4") \o <<"\n">>
                         \o ExampleHeader2 \o ExampleWord("5") \o <<"\n">>

\* C17: every word of a row is printed as 8 lowercase hex digits followed by
\* one space, so each row ends with a space and then its newline; base 0x1000
\* and words 1..5 print '0x00001000: 00000001 00000002 00000003 00000004 ',
\* newline, '0x00001010: 00000005 ', newline.
C17_SpaceAfterEachWord ==
    DumpDone =>
        /\ \A r \in 1..Len(Rows(DumpText)) : RowSpaced(Rows(DumpText)[r])
        /\ ExampleDump =>
              DumpText = ExampleHeader1
                         \o ExampleWord("1") \o <<" ">> \o ExampleWord("2") \o <<" ">>
                         \o ExampleWord("3") \o <<" ">> \o ExampleWord("4") \o <<" ", "\n">>
                         \o ExampleHeader2 \o ExampleWord("5") \o <<" ", "\n">>

C17_Witness ==
    /\ ExampleDump
    /\ pc = "iterated"
    /\ Len(Rows(DumpText)) = 2
    /\ Rows(DumpText)[2] = ExampleHeader2 \o ExampleWord("5") \o <<" ">>

----------------------------------------------------------------------------
(* The arguments of `connect`. *)

\* a `connect` line with two or more arguments, read while Disconnected
ConnectWithMore ==
    /\ repl = "unconnected_repl"
    /\ FirstToken(io.readline) = KwConnect
    /\ Len(Tokens(io.readline)) >= 3

\* C18 as stated: a `connect` line with two or more arguments is turned
\* down like one without arguments: Continue, no probe opened, the session
\* stays Disconnected.
C18_ExactlyOneArgument == ConnectWithMore => Rejected

\* C18: `connect` needs at least one argument and reads the first one only:
\* a line with two or more arguments gives what the line with its first
\* argument alone gives, Connect{n} for a first argument n in 0..255 and
\* Continue with a diagnostic otherwise; a line with no argument gives
\* Continue, opens no probe and leaves the session Disconnected.
C18_FirstArgumentOnly ==
    /\ ConnectWithMore =>
          /\ (\E v \in 0..255 : Tokens(io.readline)[2] = ToDec(v)) =>
                /\ ret.tag = "Connect"
                /\ ToDec(ret.n) = Tokens(io.readline)[2]
                /\ Called("new_from_connected")
          /\ (~Numeric(Tokens(io.readline)[2]) \/ Above255(Tokens(io.readline)[2])) => Rejected
    /\ (repl = "unconnected_repl" /\ Tokens(io.readline) = <<KwConnect>>) => Rejected

\* `connect 0 x` connects to probe 0
C18_Witness ==
    /\ ConnectWithMore
    /\ Tokens(io.readline) = <<KwConnect, <<"0">>, <<"x">>>>
    /\ ret.tag = "Connect" /\ ret.n = 0
    /\ Connected

----------------------------------------------------------------------------
(* The TARGETID line of the info report. *)

\* the info operation read TARGETID
TargetIdRead ==
    /\ repl = "connected_repl"
    /\ ret.tag = "Info"
    /\ FirstFailure > 3

\* the text printed from the piece at position p up to the end of its line
RECURSIVE LineAt(_)
LineAt(p) ==
    IF p > Len(out) \/ out[p] = "\n" THEN <<>>
    ELSE <<out[p]>> \o LineAt(p + 1)

TargetIdLine == LineAt(PositionOf("\tRevision = "))

\* C19: the TARGETID line of the report shows bits 31..28 of the register
\* value as Revision, bits 27..12 as Part Number and bits 11..1 as Designer.
C19_TargetIdLine ==
    TargetIdRead =>
        TargetIdLine = <<"\tRevision = ">> \o ToDec(Bits31to28(io.info.targetid.val))
                       \o <<", Part Number = ">> \o ToDec(Bits27to12(io.info.targetid.val))
                       \o <<", Designer = ">> \o ToDec(Bits11to1(io.info.targetid.val))

\* what the line shows: the reserved bit in the place of the part number
C19_ReservedAsPartNumber ==
    TargetIdRead =>
        TargetIdLine = <<"\tRevision = ">> \o ToDec(Bits31to28(io.info.targetid.val))
                       \o <<", Part Number = ">> \o ToDec(Bit0(io.info.targetid.val))
                       \o <<", Designer = ">> \o ToDec(Bits11to1(io.info.targetid.val))

C19_Shown ==
    /\ TargetIdRead
    /\ io.info.targetid.val = U32(15264, 1143)
    /\ TargetIdLine = <<"\tRevision = ", "3", ", Part Number = ", "1", ", Designer = ", "5", "7", "1">>

====
